---- MODULE Spec2Model ----
(***************************************************************************)
(* A model of lib/strategy.js: the Molch OAuth 2.0 passport strategy.      *)
(*                                                                         *)
(* JavaScript strings that the code inspects character by character (the   *)
(* profile URL) are sequences of one-character strings.  Response bodies   *)
(* are sequences of JSON lexemes, and JSON.parse is a parser over them.    *)
(* JavaScript values are records [kind, str, members]; an object's         *)
(* members are a set of <<key, value>> pairs.                              *)
(***************************************************************************)
EXTENDS Integers, Sequences, FiniteSets, TLC

VARIABLES pc, userProfileURL, userProfileFormat, calls, requests, hostOptions, last

vars == <<pc, userProfileURL, userProfileFormat, calls, requests, hostOptions, last>>

(***************************************************************************)
(* Bounds of the model.                                                    *)
(***************************************************************************)
MaxSegments == 2    \* path segments of a configured profile URL
MaxCalls == 2       \* userProfile invocations on one strategy
MaxOptions == 2     \* options supplied to one authorizationParams call

(***************************************************************************)
(* Character strings.                                                      *)
(***************************************************************************)
EmptyString == << >>

\* 'https://auth.molch.at/oauth2/userinfo/index.pl'
DefaultUserProfileURL ==
    << "h","t","t","p","s",":","/","/",
       "a","u","t","h",".","m","o","l","c","h",".","a","t",
       "/","o","a","u","t","h","2",
       "/","u","s","e","r","i","n","f","o",
       "/","i","n","d","e","x",".","p","l" >>

\* '/userinfo'
UserinfoSuffix == << "/","u","s","e","r","i","n","f","o" >>

\* String.prototype.indexOf: the 0-based position of the first occurrence
\* of t in s, or -1.
IndexOf(s, t) ==
    LET hits == { i \in 0..(Len(s) - Len(t)) : SubSeq(s, i + 1, i + Len(t)) = t }
    IN  IF hits = {} THEN -1 ELSE CHOOSE i \in hits : \A j \in hits : i <= j

\* The position (1-based) of the first character of s, at or after from,
\* that is in stops; Len(s) + 1 when there is none.
FirstOf(s, from, stops) ==
    LET hits == { i \in from..Len(s) : s[i] \in stops }
    IN  IF hits = {} THEN Len(s) + 1 ELSE CHOOSE i \in hits : \A j \in hits : i <= j

\* uri.parse(u).pathname for a URL with a slashed protocol: the host runs
\* from after '://' to the first '/', '?' or '#', the pathname from there
\* to the first '?' or '#', and an empty pathname reads '/'.
UrlPathname(u) ==
    LET hostStart == IndexOf(u, <<":", "/", "/">>) + 4
        pathStart == FirstOf(u, hostStart, {"/", "?", "#"})
        pathEnd   == FirstOf(u, pathStart, {"?", "#"})
        path      == SubSeq(u, pathStart, pathEnd - 1)
    IN  IF path = EmptyString THEN <<"/">> ELSE path

\* The format the constructor derives from the profile URL's pathname.
UserProfileFormat(url) ==
    LET pathname == UrlPathname(url)
    IN  IF IndexOf(pathname, UserinfoSuffix) = Len(pathname) - Len(UserinfoSuffix)
        THEN "openid"
        ELSE "molch"

\* options.userProfileURL || default
ResolveUserProfileURL(option) ==
    IF option # EmptyString THEN option ELSE DefaultUserProfileURL

(***************************************************************************)
(* The profile URLs a host configures: an origin, up to MaxSegments path   *)
(* segments and an optional query.  The empty string stands for an absent  *)
(* option.                                                                 *)
(***************************************************************************)
Origin == << "h","t","t","p","s",":","/","/","h" >>

PathSegments ==
    { UserinfoSuffix,
      << "/","p","r","o","f","i","l","e" >> }

QueryStrings ==
    { EmptyString,
      << "?","r","=" >> \o UserinfoSuffix }

RECURSIVE PathsOf(_)
PathsOf(n) ==
    IF n = 0 THEN { EmptyString }
    ELSE LET shorter == PathsOf(n - 1)
         IN  shorter \cup { p \o s : p \in shorter, s \in PathSegments }

UserProfileURLOptions ==
    { EmptyString } \cup { Origin \o p \o q : p \in PathsOf(MaxSegments), q \in QueryStrings }

(***************************************************************************)
(* JavaScript values.                                                      *)
(***************************************************************************)
Undefined    == [kind |-> "undefined", str |-> "", members |-> {}]
Null         == [kind |-> "null", str |-> "", members |-> {}]
JString(x)   == [kind |-> "string", str |-> x, members |-> {}]
JNumber(x)   == [kind |-> "number", str |-> x, members |-> {}]
JBoolean(b)  == [kind |-> "boolean", str |-> IF b THEN "true" ELSE "false", members |-> {}]
JObject(ms)  == [kind |-> "object", str |-> "", members |-> ms]

\* ToBoolean: undefined, null, '', 0 and false are falsy.
Truthy(v) ==
    CASE v.kind = "undefined" -> FALSE
      [] v.kind = "null"      -> FALSE
      [] v.kind = "string"    -> v.str # ""
      [] v.kind = "number"    -> v.str # "0"
      [] v.kind = "boolean"   -> v.str = "true"
      [] OTHER                -> TRUE

HasKey(v, key) == \E m \in v.members : m[1] = key

\* v[key] of a value that is neither undefined nor null: a primitive has
\* no such property and reads undefined.
Get(v, key) ==
    IF HasKey(v, key) THEN (CHOOSE m \in v.members : m[1] = key)[2] ELSE Undefined

\* obj[key] = value
Put(obj, key, value) ==
    JObject({ m \in obj.members : m[1] # key } \cup { <<key, value>> })

(***************************************************************************)
(* JSON text is a sequence of lexemes [t, v]: punctuation "p", string      *)
(* literals "str", number literals "num", the literals null/true/false     *)
(* "lit", and anything else "junk".                                        *)
(***************************************************************************)
Punct(c)   == << [t |-> "p", v |-> c] >>
StrLit(x)  == << [t |-> "str", v |-> x] >>
NumLit(x)  == << [t |-> "num", v |-> x] >>
Lit(x)     == << [t |-> "lit", v |-> x] >>
Junk(x)    == << [t |-> "junk", v |-> x] >>

Member(key, valueText) == StrLit(key) \o Punct(":") \o valueText
ObjectText0            == Punct("{") \o Punct("}")
ObjectText1(m)         == Punct("{") \o m \o Punct("}")
ObjectText2(m1, m2)    == Punct("{") \o m1 \o Punct(",") \o m2 \o Punct("}")

ParseFailure == [ok |-> FALSE, val |-> Undefined, next |-> 0]

\* JSON.parse, by recursive descent. ParseValue reads one value starting at
\* lexeme i; ParseMembers reads the members of an object whose '{' has been
\* read, a later duplicate key replacing an earlier one.
RECURSIVE ParseValue(_, _)
RECURSIVE ParseMembers(_, _, _)
ParseValue(text, i) ==
    IF i > Len(text) THEN ParseFailure
    ELSE LET tok == text[i]
         IN  CASE tok.t = "str" -> [ok |-> TRUE, val |-> JString(tok.v), next |-> i + 1]
               [] tok.t = "num" -> [ok |-> TRUE, val |-> JNumber(tok.v), next |-> i + 1]
               [] tok.t = "lit" ->
                    [ok |-> TRUE,
                     val |-> IF tok.v = "null" THEN Null ELSE JBoolean(tok.v = "true"),
                     next |-> i + 1]
               [] tok.t = "p" /\ tok.v = "{" ->
                    IF i + 1 <= Len(text) /\ text[i + 1] = Punct("}")[1]
                    THEN [ok |-> TRUE, val |-> JObject({}), next |-> i + 2]
                    ELSE ParseMembers(text, i + 1, JObject({}))
               [] OTHER -> ParseFailure

ParseMembers(text, i, acc) ==
    IF i + 2 > Len(text) \/ text[i].t # "str" \/ text[i + 1] # Punct(":")[1]
    THEN ParseFailure
    ELSE LET r == ParseValue(text, i + 2)
         IN  IF ~r.ok \/ r.next > Len(text) THEN ParseFailure
             ELSE LET obj == Put(acc, text[i].v, r.val)
                  IN  CASE text[r.next] = Punct(",")[1] -> ParseMembers(text, r.next + 1, obj)
                        [] text[r.next] = Punct("}")[1] ->
                             [ok |-> TRUE, val |-> obj, next |-> r.next + 1]
                        [] OTHER -> ParseFailure

\* JSON.parse(text): ok is FALSE where JSON.parse throws a SyntaxError.
JSONParse(text) ==
    LET r == ParseValue(text, 1)
    IN  IF r.ok /\ r.next = Len(text) + 1
        THEN [ok |-> TRUE, val |-> r.val]
        ELSE [ok |-> FALSE, val |-> Undefined]

(***************************************************************************)
(* An optional string (err.data, body): absent reads undefined.            *)
(***************************************************************************)
AbsentText == [present |-> FALSE, text |-> << >>]
Text(t)    == [present |-> TRUE, text |-> t]

\* ToBoolean of an optional string: undefined and '' are falsy.
TextTruthy(x) == x.present /\ x.text # << >>

\* JSON.parse of an optional string: undefined is no JSON text.
JSONParseText(x) ==
    IF x.present THEN JSONParse(x.text) ELSE [ok |-> FALSE, val |-> Undefined]

\* The err argument of the GET callback: null, or the transport error with
\* its data (the response body of the failed request).
NoErr          == [isError |-> FALSE, data |-> AbsentText]
TransportError(data) == [isError |-> TRUE, data |-> data]

(***************************************************************************)
(* Error objects and profiles.                                             *)
(***************************************************************************)
NoError == [name |-> "null", message |-> Undefined, code |-> Undefined, cause |-> NoErr]

\* function MolchAPIError(message, code)
MolchAPIError(message, code) ==
    [name |-> "MolchAPIError", message |-> message, code |-> code, cause |-> NoErr]

\* ./errors/userinfoerror: UserInfoError(description, errorCode)
UserInfoError(message, code) ==
    [name |-> "UserInfoError", message |-> message, code |-> code, cause |-> NoErr]

\* passport-oauth2's InternalOAuthError(message, err)
InternalOAuthError(message, err) ==
    [name |-> "InternalOAuthError", message |-> message, code |-> Undefined, cause |-> err]

\* new Error(message)
PlainError(message) ==
    [name |-> "Error", message |-> message, code |-> Undefined, cause |-> NoErr]

\* The ReferenceError '<identifier> is not defined'; message holds the
\* identifier.
ReferenceError(identifier) ==
    [name |-> "ReferenceError", message |-> JString(identifier), code |-> Undefined,
     cause |-> NoErr]

NoProfile ==
    [provider |-> "", id |-> Undefined, username |-> Undefined, displayName |-> Undefined,
     raw |-> AbsentText, json |-> Undefined]

(***************************************************************************)
(* The identifiers bound in the module's scope: the variables of the       *)
(* require block, the function declarations, and the globals used.         *)
(***************************************************************************)
ModuleBindings ==
    { "OAuth2Strategy", "util", "uri", "InternalOAuthError", "MolchAPIError",
      "UserInfoError", "Strategy", "Error", "JSON", "module", "require" }

\* new <identifier>(a, b) for an identifier that is bound.
Instantiate(identifier, a, b) ==
    CASE identifier = "MolchAPIError"      -> MolchAPIError(a, b)
      [] identifier = "UserInfoError"      -> UserInfoError(a, b)
      [] identifier = "InternalOAuthError" -> InternalOAuthError(a, b)
      [] OTHER                             -> PlainError(a)

\* <identifier>.parse(json) for a profile parser that is bound: the
\* normalized id, username and displayName.
ProfileParse(identifier, json) ==
    IF identifier = "OpenIDProfile"
    THEN [NoProfile EXCEPT !.id = Get(json, "sub"),
                           !.username = Get(json, "preferred_username"),
                           !.displayName = Get(json, "name")]
    ELSE [NoProfile EXCEPT !.id = Get(json, "id"),
                           !.username = Get(json, "username"),
                           !.displayName = Get(json, "displayName")]

(***************************************************************************)
(* The outcome of one run of the GET callback: the exception that escaped  *)
(* it (threw), or the call of done with its arguments; parser is the       *)
(* profile parser the switch selected, "none" when it was not reached.     *)
(***************************************************************************)
NoOutcome ==
    [threw |-> NoError, doneCalled |-> FALSE, doneErr |-> NoError, profile |-> NoProfile,
     parser |-> "none"]

Done(e, profile, parser) ==
    [threw |-> NoError, doneCalled |-> TRUE, doneErr |-> e, profile |-> profile,
     parser |-> parser]

Throw(e, parser) ==
    [threw |-> e, doneCalled |-> FALSE, doneErr |-> NoError, profile |-> NoProfile,
     parser |-> parser]

\* return done(new <identifier>(a, b))
DoneNew(identifier, a, b) ==
    IF identifier \in ModuleBindings
    THEN Done(Instantiate(identifier, a, b), NoProfile, "none")
    ELSE Throw(ReferenceError(identifier), "none")

\* if (err.data) { try { json = JSON.parse(err.data); } catch (_) {} }
ParseErrData(err) ==
    IF TextTruthy(err.data)
    THEN LET r == JSONParse(err.data.text) IN IF r.ok THEN r.val ELSE Undefined
    ELSE Undefined

\* json && json.error && json.error.message
IsAPIErrorShape(json) ==
    Truthy(json) /\ Truthy(Get(json, "error")) /\ Truthy(Get(Get(json, "error"), "message"))

\* json && json.error && json.error_description
IsUserInfoShape(json) ==
    Truthy(json) /\ Truthy(Get(json, "error")) /\ Truthy(Get(json, "error_description"))

\* return done(new MolchPlusAPIError(json.error.message, json.error.code));
APIErrorCase(json) ==
    DoneNew("MolchPlusAPIError", Get(Get(json, "error"), "message"),
            Get(Get(json, "error"), "code"))

UserInfoCaseSwapped(json) ==
    DoneNew("UserInfoError", Get(json, "error"), Get(json, "error_description"))

\* return done(new UserInfoError(json.error_description, json.error));
UserInfoCase(json) ==
    DoneNew("UserInfoError", Get(json, "error_description"), Get(json, "error"))

FailedToFetchUnwrapped(err) ==
    DoneNew("InternalOAuthError", JString("Failed to fetch user profile"), NoErr)

\* return done(new InternalOAuthError('Failed to fetch user profile', err));
FailedToFetch(err) ==
    DoneNew("InternalOAuthError", JString("Failed to fetch user profile"), err)

ParseBodySwallowing(body) ==
    [ok |-> TRUE, val |-> JSONParseText(body).val]

\* try { json = JSON.parse(body); } catch (ex) { return done(...); }
\* ok is FALSE when the catch clause runs.
ParseBody(body) == JSONParseText(body)

SelectParserOpenIDOnly(format) == "OpenIDProfile"

\* switch (self._userProfileFormat): the parser each case names.
SelectParser(format) ==
    IF format = "openid" THEN "OpenIDProfile" ELSE "MolchPlusProfile"

\* profile.provider = 'molch'; profile._raw = body; profile._json = json;
BuildProfile(profile, body, json) ==
    [profile EXCEPT !.provider = "molch", !.raw = body, !.json = json]

\* The callback given to this._oauth2.get, run with (err, body).
GetCallback(format, err, body) ==
    IF err.isError
    THEN LET json == ParseErrData(err)
         IN  IF IsAPIErrorShape(json) THEN APIErrorCase(json)
             ELSE IF IsUserInfoShape(json) THEN UserInfoCase(json)
             ELSE FailedToFetch(err)
    ELSE LET r == ParseBody(body)
         IN  IF ~r.ok
             THEN DoneNew("Error", JString("Failed to parse user profile"), Undefined)
             ELSE LET parser == SelectParser(format)
                  IN  IF parser \in ModuleBindings
                      THEN Done(NoError,
                                BuildProfile(ProfileParse(parser, r.val), body, r.val),
                                parser)
                      ELSE Throw(ReferenceError(parser), parser)

OAuth2GetTwice(reqs, url, accessToken) ==
    reqs \o << [url |-> url, accessToken |-> accessToken],
               [url |-> url, accessToken |-> accessToken] >>

\* this._oauth2.get(this._userProfileURL, accessToken, callback): one GET.
OAuth2Get(reqs, url, accessToken) ==
    Append(reqs, [url |-> url, accessToken |-> accessToken])

\* if (options[option]) { params[param] = value; }
SetIfTruthy(params, options, option, param, value) ==
    IF Truthy(Get(options, option)) THEN Put(params, param, value) ELSE params

AuthorizationParamsMixedUp(options) ==
    LET p1 == SetIfTruthy(JObject({}), options, "accessType", "access_type",
                          Get(options, "accessType"))
        p2 == SetIfTruthy(p1, options, "prompt", "prompt", Get(options, "prompt"))
        p3 == SetIfTruthy(p2, options, "loginHint", "login_hint", Get(options, "loginHint"))
        p4 == SetIfTruthy(p3, options, "includeGrantedScopes", "include_granted_scopes",
                          JBoolean(TRUE))
        p5 == SetIfTruthy(p4, options, "display", "display", Get(options, "display"))
        p6 == SetIfTruthy(p5, options, "openIDRealm", "openid.realm",
                          Get(options, "openIDRealm"))
        p7 == SetIfTruthy(p6, options, "approvalPrompt", "prompt",
                          Get(options, "approvalPrompt"))
        p8 == SetIfTruthy(p7, options, "userID", "user_id", Get(options, "userID"))
    IN  p8

\* Strategy.prototype.authorizationParams
AuthorizationParams(options) ==
    LET p1 == SetIfTruthy(JObject({}), options, "accessType", "access_type",
                          Get(options, "accessType"))
        p2 == SetIfTruthy(p1, options, "prompt", "prompt", Get(options, "prompt"))
        p3 == SetIfTruthy(p2, options, "loginHint", "login_hint", Get(options, "loginHint"))
        p4 == SetIfTruthy(p3, options, "includeGrantedScopes", "include_granted_scopes",
                          JBoolean(TRUE))
        p5 == SetIfTruthy(p4, options, "display", "display", Get(options, "display"))
        p6 == SetIfTruthy(p5, options, "openIDRealm", "openid.realm",
                          Get(options, "openIDRealm"))
        p7 == SetIfTruthy(p6, options, "approvalPrompt", "approval_prompt",
                          Get(options, "approvalPrompt"))
        p8 == SetIfTruthy(p7, options, "userID", "user_id", Get(options, "userID"))
    IN  p8

(***************************************************************************)
(* The inputs the environment supplies.                                    *)
(***************************************************************************)
AccessTokens == { "tokenA", "tokenB" }

\* The value of the error member of a failed request's JSON body.
ErrorValueTexts ==
    { StrLit("invalid_grant"), StrLit(""), Lit("null"),
      ObjectText1(Member("code", NumLit("7"))) }
    \cup { ObjectText2(Member("message", StrLit(m)), Member("code", NumLit("7")))
           : m \in { "bad", "" } }

DescriptionTexts == { StrLit("expired"), StrLit("") }

\* Text that JSON.parse rejects.
MalformedTexts ==
    { EmptyString, Junk("<html>"), Punct("{") \o StrLit("error") \o Punct(":") }

\* err.data of a failed GET.
ErrorData ==
    { AbsentText }
    \cup { Text(t) : t \in MalformedTexts }
    \cup { Text(Lit("null")), Text(ObjectText0) }
    \cup { Text(ObjectText1(Member("error", e))) : e \in ErrorValueTexts }
    \cup { Text(ObjectText1(Member("error_description", d))) : d \in DescriptionTexts }
    \cup { Text(ObjectText2(Member("error", e), Member("error_description", d)))
           : e \in ErrorValueTexts, d \in DescriptionTexts }

\* body of a successful GET.
Bodies ==
    { AbsentText }
    \cup { Text(t) : t \in MalformedTexts }
    \cup { Text(Lit("null")), Text(ObjectText0),
           Text(ObjectText2(Member("sub", StrLit("1")), Member("name", StrLit("A")))),
           Text(ObjectText2(Member("id", StrLit("1")), Member("displayName", StrLit("A")))) }

\* The options authorizationParams reads, and one it does not.
RecognizedOptions ==
    { "accessType", "prompt", "loginHint", "includeGrantedScopes", "display",
      "openIDRealm", "approvalPrompt", "userID" }

OptionKeys == RecognizedOptions \cup { "hostedDomain" }

\* A truthy and a falsy value for each option.
OptionValues(option) ==
    CASE option = "includeGrantedScopes" -> { JBoolean(TRUE), JBoolean(FALSE) }
      [] option = "accessType"     -> { JString("offline"), JString("") }
      [] option = "prompt"         -> { JString("consent"), JString("") }
      [] option = "loginHint"      -> { JString("user@example.com"), JString("") }
      [] option = "display"        -> { JString("popup"), JString("") }
      [] option = "openIDRealm"    -> { JString("http://example.com"), JString("") }
      [] option = "approvalPrompt" -> { JString("force"), JString("") }
      [] option = "userID"         -> { JString("1234"), JString("") }
      [] OTHER                     -> { JString("example.com"), JString("") }

\* The member sets of the options objects that supply up to n options.
RECURSIVE OptionMembers(_)
OptionMembers(n) ==
    IF n = 0 THEN { {} }
    ELSE LET fewer == OptionMembers(n - 1)
             unset(ms) == { o \in OptionKeys : \A m \in ms : m[1] # o }
             extend(ms) == UNION { { ms \cup { <<k, v>> } : v \in OptionValues(k) }
                                   : k \in unset(ms) }
         IN  fewer \cup UNION { extend(ms) : ms \in fewer }

OptionsInputs == { JObject(ms) : ms \in OptionMembers(MaxOptions) }

\* { includeGrantedScopes: true, prompt: 'consent' }
ExampleOptions ==
    JObject({ <<"includeGrantedScopes", JBoolean(TRUE)>>, <<"prompt", JString("consent")>> })

(***************************************************************************)
(* State.                                                                  *)
(*   pc                 "new" before the constructor has run, then "ready" *)
(*   userProfileURL     this._userProfileURL                               *)
(*   userProfileFormat  this._userProfileFormat                            *)
(*   calls              the userProfile invocations, in order, each with   *)
(*                      its access token and whether its GET callback is   *)
(*                      pending or has run                                 *)
(*   requests           the GETs issued through this._oauth2, in order     *)
(*   hostOptions        the options object the host application passes to  *)
(*                      authorizationParams                                *)
(*   last               the most recent operation that returned a result:  *)
(*                      a run of the GET callback with its arguments and   *)
(*                      outcome, or an authorizationParams call with its   *)
(*                      argument and return value                          *)
(***************************************************************************)
NoLast ==
    [op |-> "none", err |-> NoErr, body |-> AbsentText, out |-> NoOutcome,
     options |-> Undefined, ret |-> Undefined]

Init ==
    /\ pc = "new"
    /\ userProfileURL = EmptyString
    /\ userProfileFormat = ""
    /\ calls = << >>
    /\ requests = << >>
    /\ hostOptions = ExampleOptions
    /\ last = NoLast

\* new Strategy(options, verify)
Construct ==
    /\ pc = "new"
    /\ \E option \in UserProfileURLOptions :
          /\ userProfileURL' = ResolveUserProfileURL(option)
          /\ userProfileFormat' = UserProfileFormat(ResolveUserProfileURL(option))
    /\ pc' = "ready"
    /\ UNCHANGED <<calls, requests, hostOptions, last>>

\* strategy.userProfile(accessToken, done), up to the return of
\* this._oauth2.get.
UserProfile ==
    /\ pc = "ready"
    /\ Len(calls) < MaxCalls
    /\ \E accessToken \in AccessTokens :
          /\ calls' = Append(calls, [accessToken |-> accessToken, status |-> "pending"])
          /\ requests' = OAuth2Get(requests, userProfileURL, accessToken)
    /\ UNCHANGED <<pc, userProfileURL, userProfileFormat, hostOptions, last>>

\* The GET callback of call i runs with (err, body).
RunCallback(i, err, body) ==
    LET out == GetCallback(userProfileFormat, err, body)
    IN  /\ calls[i].status = "pending"
        /\ calls' = [calls EXCEPT ![i].status = "completed"]
        /\ last' = [NoLast EXCEPT !.op = "callback", !.err = err, !.body = body,
                                  !.out = out]
        /\ UNCHANGED <<pc, userProfileURL, userProfileFormat, requests, hostOptions>>

\* The GET of a pending call fails: callback(err).
GetFails ==
    \E i \in 1..Len(calls), data \in ErrorData :
        RunCallback(i, TransportError(data), AbsentText)

\* The GET of a pending call succeeds: callback(null, body, res).
GetSucceeds ==
    \E i \in 1..Len(calls), body \in Bodies :
        RunCallback(i, NoErr, body)

\* strategy.authorizationParams(options)
AuthorizationParamsCall ==
    /\ pc = "ready"
    /\ last' = [NoLast EXCEPT !.op = "authorizationParams", !.options = hostOptions,
                             !.ret = AuthorizationParams(hostOptions)]
    /\ UNCHANGED <<pc, userProfileURL, userProfileFormat, calls, requests, hostOptions>>

Next ==
    \/ Construct
    \/ UserProfile
    \/ GetFails
    \/ GetSucceeds
    \/ AuthorizationParamsCall

Spec == Init /\ [][Next]_vars

(***************************************************************************)
(* authorizationParams alone, on a strategy constructed with no options,   *)
(* for every options object of up to MaxOptions options.                   *)
(***************************************************************************)
InitParams ==
    /\ pc = "ready"
    /\ userProfileURL = ResolveUserProfileURL(EmptyString)
    /\ userProfileFormat = UserProfileFormat(ResolveUserProfileURL(EmptyString))
    /\ calls = << >>
    /\ requests = << >>
    /\ hostOptions \in OptionsInputs
    /\ last = NoLast

NextParams == AuthorizationParamsCall

SpecParams == InitParams /\ [][NextParams]_vars

(***************************************************************************)
(* Properties.                                                             *)
(***************************************************************************)
EndsWith(s, t) == Len(s) >= Len(t) /\ SubSeq(s, Len(s) - Len(t) + 1, Len(s)) = t

\* The most recent result is a run of the GET callback after a failed GET,
\* or after a successful one.
FailedGet    == last.op = "callback" /\ last.err.isError
SucceededGet == last.op = "callback" /\ ~last.err.isError

\* err.data of that run as JSON, where it parses.
ErrJsonOk == JSONParseText(last.err.data).ok
ErrJson   == JSONParseText(last.err.data).val

\* The parser a format stands for.
ParserOfFormat(format) == IF format = "openid" THEN "OpenIDProfile" ELSE "MolchPlusProfile"

\* C1: once constructed, the Profile Format is 'openid' exactly when the
\* pathname of the configured profile URL ends with '/userinfo', and is
\* 'molch' for every other pathname.
C1_FormatFollowsSuffix ==
    pc = "ready" =>
        /\ userProfileFormat \in { "openid", "molch" }
        /\ userProfileFormat = "openid"
              <=> EndsWith(UrlPathname(userProfileURL), UserinfoSuffix)

\* C2: a failed GET whose body is JSON {error: {message, code}} (message
\* non-empty) ends with done called with a MolchAPIError carrying that
\* message and that code.
C2_APIErrorShapeYieldsMolchAPIError ==
    (/\ FailedGet
     /\ ErrJsonOk
     /\ Truthy(Get(Get(ErrJson, "error"), "message"))
     /\ HasKey(Get(ErrJson, "error"), "code"))
    => /\ last.out.doneCalled
       /\ last.out.doneErr.name = "MolchAPIError"
       /\ last.out.doneErr.message = Get(Get(ErrJson, "error"), "message")
       /\ last.out.doneErr.code = Get(Get(ErrJson, "error"), "code")

\* done was called with UserInfoError(error_description, error) of err.data.
DoneWithUserInfoError ==
    /\ last.out.doneCalled
    /\ last.out.threw = NoError
    /\ last.out.doneErr.name = "UserInfoError"
    /\ last.out.doneErr.message = Get(ErrJson, "error_description")
    /\ last.out.doneErr.code = Get(ErrJson, "error")
    /\ last.out.profile = NoProfile

NeitherShape ==
    \/ ~last.err.data.present
    \/ ~ErrJsonOk
    \/ ~HasKey(ErrJson, "error")
    \/ (~HasKey(Get(ErrJson, "error"), "message") /\ ~HasKey(ErrJson, "error_description"))

\* C4: a failed GET whose error body matches neither recognised shape ends
\* with done called with InternalOAuthError 'Failed to fetch user profile'
\* wrapping the original error.
C4_NeitherShapeYieldsInternalOAuthError ==
    (FailedGet /\ NeitherShape)
    => /\ last.out.doneCalled
       /\ last.out.threw = NoError
       /\ last.out.doneErr.name = "InternalOAuthError"
       /\ last.out.doneErr.message = JString("Failed to fetch user profile")
       /\ last.out.doneErr.cause = last.err
       /\ last.out.profile = NoProfile

\* A JSON body with an error member, no message and no error_description,
\* was answered with the InternalOAuthError wrapping the error.
C4_Witness ==
    /\ FailedGet
    /\ ErrJsonOk
    /\ HasKey(ErrJson, "error")
    /\ NeitherShape
    /\ last.out.doneErr.name = "InternalOAuthError"
    /\ last.out.doneErr.cause = TransportError(last.err.data)

\* C5: a successful GET whose body is not valid JSON ends with done called
\* with Error 'Failed to parse user profile', no profile, no parser run and
\* nothing thrown.
C5_MalformedBodyYieldsParseError ==
    (SucceededGet /\ ~JSONParseText(last.body).ok)
    => /\ last.out.doneCalled
       /\ last.out.threw = NoError
       /\ last.out.doneErr.name = "Error"
       /\ last.out.doneErr.message = JString("Failed to parse user profile")
       /\ last.out.profile = NoProfile
       /\ last.out.parser = "none"

\* The body '<html>' of a successful GET was answered with the parse error.
C5_Witness ==
    /\ SucceededGet
    /\ last.body = Text(Junk("<html>"))
    /\ last.out.doneCalled
    /\ last.out.doneErr.name = "Error"

\* C6: every run of the GET callback calls done and lets no exception
\* escape.
C6_NoExceptionEscapesAndDoneIsCalled ==
    last.op = "callback" => (last.out.threw = NoError /\ last.out.doneCalled)

\* C7: a successful GET with a well-formed JSON body ends with done called
\* with no error and a profile whose provider is 'molch', whose _raw is the
\* body, whose _json is the parsed body, built by the parser of the format.
C7_WellFormedBodyYieldsProfile ==
    (SucceededGet /\ JSONParseText(last.body).ok)
    => /\ last.out.doneCalled
       /\ last.out.threw = NoError
       /\ last.out.doneErr = NoError
       /\ last.out.profile.provider = "molch"
       /\ last.out.profile.raw = last.body
       /\ last.out.profile.json = JSONParseText(last.body).val
       /\ last.out.parser = ParserOfFormat(userProfileFormat)

\* The query parameter each recognised option maps to.
ParamOf(option) ==
    CASE option = "accessType"           -> "access_type"
      [] option = "prompt"               -> "prompt"
      [] option = "loginHint"            -> "login_hint"
      [] option = "includeGrantedScopes" -> "include_granted_scopes"
      [] option = "display"              -> "display"
      [] option = "openIDRealm"          -> "openid.realm"
      [] option = "approvalPrompt"       -> "approval_prompt"
      [] option = "userID"               -> "user_id"

\* The value the parameter of a supplied option carries.
ParamValue(options, option) ==
    IF option = "includeGrantedScopes" THEN JBoolean(TRUE) ELSE Get(options, option)

\* { include_granted_scopes: true, prompt: 'consent' }
ExampleParams ==
    JObject({ <<"include_granted_scopes", JBoolean(TRUE)>>, <<"prompt", JString("consent")>> })

\* C8 as stated: the mapping authorizationParams returns has a parameter
\* exactly when its option was supplied (for includeGrantedScopes: supplied
\* truthy), with the option's value, and no other key.
C8_ParamsExactlyWhenSupplied ==
    last.op = "authorizationParams" =>
        /\ \A o \in RecognizedOptions :
              /\ HasKey(last.ret, ParamOf(o))
                    <=> IF o = "includeGrantedScopes"
                        THEN Truthy(Get(last.options, o))
                        ELSE HasKey(last.options, o)
              /\ HasKey(last.ret, ParamOf(o))
                    => Get(last.ret, ParamOf(o)) = ParamValue(last.options, o)
        /\ \A m \in last.ret.members : \E o \in RecognizedOptions : m[1] = ParamOf(o)

\* C8 (amended): the mapping authorizationParams returns has a parameter
\* exactly when its option was supplied with a truthy value, carrying that
\* value (true for includeGrantedScopes), and no other key; the options
\* {includeGrantedScopes: true, prompt: 'consent'} yield exactly
\* {include_granted_scopes: true, prompt: 'consent'}.
C8_ParamsExactlyWhenTruthy ==
    last.op = "authorizationParams" =>
        /\ \A o \in RecognizedOptions :
              /\ HasKey(last.ret, ParamOf(o)) <=> Truthy(Get(last.options, o))
              /\ HasKey(last.ret, ParamOf(o))
                    => Get(last.ret, ParamOf(o)) = ParamValue(last.options, o)
        /\ \A m \in last.ret.members : \E o \in RecognizedOptions : m[1] = ParamOf(o)
        /\ last.options = ExampleOptions => last.ret = ExampleParams

\* authorizationParams({includeGrantedScopes: true, prompt: 'consent'})
\* returned {include_granted_scopes: true, prompt: 'consent'}.
C8_Witness ==
    /\ last.op = "authorizationParams"
    /\ last.options = ExampleOptions
    /\ last.ret = ExampleParams

C10_OneGetPerInvocation ==
    /\ pc = "new" => requests = << >>
    /\ (pc = "ready" /\ calls = << >>) => requests = << >>
    /\ Len(requests) = Len(calls)
    /\ \A i \in 1..Len(calls) :
          requests[i] = [url |-> userProfileURL, accessToken |-> calls[i].accessToken]

\* Two invocations with different tokens have both completed, the later
\* with a failed GET, and two GETs were issued.
C10_Witness ==
    /\ Len(calls) = 2
    /\ calls[1].accessToken # calls[2].accessToken
    /\ \A i \in 1..Len(calls) : calls[i].status = "completed"
    /\ FailedGet
    /\ Len(requests) = 2

====
